---- MODULE Spec2Model ----
(***************************************************************************)
(* Model of investments_calc.py: the rebalancing engine behind             *)
(* calculate(): validation, valuation, restriction propagation, the two    *)
(* weight correctors, the rebalancer and the free-cash distributor.        *)
(*                                                                         *)
(* Money and weights are decimal.Decimal values.  A Decimal is modelled as *)
(* <<c, e>> (the value c * 10^e, kept canonical: c carries no trailing     *)
(* zero, zero is <<0, 0>>), and every arithmetic operation rounds its      *)
(* exact result to Prec significant digits, ROUND_HALF_EVEN, as the        *)
(* decimal context does.  None is the empty tuple.                         *)
(***************************************************************************)
EXTENDS Integers, Sequences, FiniteSets, TLC

\* The decimal context's precision.  CPython's default context has 28
\* digits; the model runs the same arithmetic with fewer, so that the
\* intermediate coefficients (below 10^(2*Prec+1)) fit 32-bit integers.
Prec == 3

None == <<>>

Abs(n) == IF n < 0 THEN -n ELSE n

Sign(n) == IF n < 0 THEN -1 ELSE IF n = 0 THEN 0 ELSE 1

Pow10(k) == 10 ^ k

\* Number of decimal digits of a natural number (1 for 0).
NumDigits(a) ==
    IF a < 10 THEN 1
    ELSE IF a < 100 THEN 2
    ELSE IF a < 1000 THEN 3
    ELSE IF a < 10000 THEN 4
    ELSE IF a < 100000 THEN 5
    ELSE IF a < 1000000 THEN 6
    ELSE IF a < 10000000 THEN 7
    ELSE IF a < 100000000 THEN 8
    ELSE IF a < 1000000000 THEN 9
    ELSE 10

RECURSIVE Canon(_, _)
\* The canonical pair of the value c * 10^e.
Canon(c, e) ==
    IF c = 0 THEN <<0, 0>>
    ELSE IF c % 10 = 0 THEN Canon(c \div 10, e + 1)
    ELSE <<c, e>>

\* Decimal(n) for an int n.
Dec(n) == Canon(n, 0)

Zero == <<0, 0>>

One == <<1, 0>>

\* Half-even: whether the quotient q of a by 10^k, with remainder r, rounds
\* away from zero (sticky says a non-zero remainder lies below a's last
\* digit).
RoundsUp(q, r, half, sticky) ==
    \/ r > half
    \/ r = half /\ (sticky \/ q % 2 = 1)

\* sign * a * 10^e with a's last k digits rounded off.
RoundOff(sign, a, e, sticky, k) ==
    IF k <= 0 THEN Canon(sign * a, e)
    ELSE IF RoundsUp(a \div Pow10(k), a % Pow10(k), 5 * Pow10(k - 1), sticky)
    THEN Canon(sign * ((a \div Pow10(k)) + 1), e + k)
    ELSE Canon(sign * (a \div Pow10(k)), e + k)

\* The context's rounding: the value sign * a * 10^e (a >= 0) to Prec
\* digits, ROUND_HALF_EVEN.
RoundS(sign, a, e, sticky) == RoundOff(sign, a, e, sticky, NumDigits(a) - Prec)

Round(n, e) == RoundS(Sign(n), Abs(n), e, FALSE)

\* Decimal.__mul__
DMul(x, y) == Round(x[1] * y[1], x[2] + y[2])

DNeg(x) == <<-x[1], x[2]>>

\* Decimal._normalize: the exponent below which the smaller operand of a sum
\* cannot change the rounded result, hi being the operand of larger exponent.
NegligibleBelow(hi) == hi[2] + (IF NumDigits(Abs(hi[1])) - Prec - 2 < -1
                                THEN NumDigits(Abs(hi[1])) - Prec - 2 ELSE -1)

\* hi and lo brought to lo's exponent, added and rounded.
AddExact(hi, lo) == Round(hi[1] * Pow10(hi[2] - lo[2]) + lo[1], lo[2])

\* The rounded sum of hi and lo, hi's exponent the larger: an operand that
\* lies wholly below NegligibleBelow(hi) counts as one unit of that place.
AddAligned(hi, lo) ==
    IF NumDigits(Abs(lo[1])) + lo[2] - 1 < NegligibleBelow(hi)
    THEN AddExact(hi, <<Sign(lo[1]), NegligibleBelow(hi)>>)
    ELSE AddExact(hi, lo)

\* Decimal.__add__: the exact sum, rounded.
DAdd(x, y) ==
    IF x[1] = 0 THEN y
    ELSE IF y[1] = 0 THEN x
    ELSE IF x[2] >= y[2] THEN AddAligned(x, y)
    ELSE AddAligned(y, x)

\* Decimal.__sub__
DSub(x, y) == DAdd(x, DNeg(y))

\* The power of ten that gives x / y a quotient of more than Prec digits.
DivShift(x, y) == Prec + 1 + NumDigits(Abs(y[1])) - NumDigits(Abs(x[1]))

\* Decimal.__truediv__ for a non-zero divisor: the quotient to more than
\* Prec digits, and the remainder as the sticky bit, give the correctly
\* rounded quotient.
DDiv(x, y) ==
    IF x[1] = 0 THEN Zero
    ELSE RoundS(Sign(x[1]) * Sign(y[1]),
                (Abs(x[1]) * Pow10(DivShift(x, y))) \div Abs(y[1]),
                x[2] - y[2] - DivShift(x, y),
                (Abs(x[1]) * Pow10(DivShift(x, y))) % Abs(y[1]) # 0)

\* The position of the leading digit.
Adjusted(x) == NumDigits(Abs(x[1])) + x[2]

CmpInt(a, b) == IF a < b THEN -1 ELSE IF a = b THEN 0 ELSE 1

Min(a, b) == IF a < b THEN a ELSE b

\* |x| as an integer number of units of 10^e.
Scaled(x, e) == Abs(x[1]) * Pow10(x[2] - e)

\* Comparison of |x| and |y|.
CmpAbs(x, y) ==
    IF Adjusted(x) # Adjusted(y) THEN CmpInt(Adjusted(x), Adjusted(y))
    ELSE CmpInt(Scaled(x, Min(x[2], y[2])), Scaled(y, Min(x[2], y[2])))

\* Comparison of two Decimals (exact): -1, 0 or 1.
Cmp(x, y) ==
    IF Sign(x[1]) # Sign(y[1]) THEN CmpInt(Sign(x[1]), Sign(y[1]))
    ELSE IF x[1] = 0 THEN 0
    ELSE Sign(x[1]) * CmpAbs(x, y)

DLt(x, y) == Cmp(x, y) < 0

DLe(x, y) == Cmp(x, y) <= 0

DGt(x, y) == Cmp(x, y) > 0

DGe(x, y) == Cmp(x, y) >= 0

DAbs(x) == <<Abs(x[1]), x[2]>>

DMax(x, y) == IF DGt(y, x) THEN y ELSE x

DMin(x, y) == IF DLt(y, x) THEN y ELSE x

\* q, or -1 when q has more than Prec digits.
WithinPrec(q) == IF q >= Pow10(Prec) THEN -1 ELSE q

\* The integer part of |x| / |y| (y non-zero), or -1 when it has more than
\* Prec digits (Decimal raises DivisionImpossible).
IntQuotient(x, y) ==
    IF x[1] = 0 \/ Adjusted(x) < Adjusted(y) THEN 0
    ELSE IF Adjusted(x) - Adjusted(y) > Prec THEN -1
    ELSE WithinPrec(Scaled(x, Min(x[2], y[2])) \div Scaled(y, Min(x[2], y[2])))

\* Whether x // y raises (division by zero, or a quotient too long).
FloorDivFails(x, y) == y[1] = 0 \/ IntQuotient(x, y) < 0

\* Decimal.__floordiv__: the quotient truncated towards zero.
DFloorDiv(x, y) == Dec(Sign(x[1]) * Sign(y[1]) * IntQuotient(x, y))

\* math.ceil(x) as an int.
DCeil(x) ==
    IF x[2] >= 0 THEN x[1] * Pow10(x[2])
    ELSE IF -x[2] > 9 THEN (IF x[1] > 0 THEN 1 ELSE 0)
    ELSE -((-x[1]) \div Pow10(-x[2]))


(***************************************************************************)
(* The portfolio.                                                          *)
(***************************************************************************)

\* Bounds of the inputs.
MaxShares == 1

MaxPrice == 2

MaxFreeAssets == 2

MaxMinFreeAssets == 1

MaxTradeVolume == 2

\* The model's cap on the retries of one corrector level: a level that
\* would start retry number MaxRetries + 1 is reported as "diverged".
MaxRetries == 4

MaxCash == 5

\* The calls of distribute_free_assets one outer pass is followed for.
MaxCalls == 10

MaxSiblingShares == 4

\* Tree shapes: the root list and each node's sub-holdings (none: a leaf).
\* A leaf's ticker is its node number.
ShapeFlat == [root |-> <<1, 2>>, sub |-> <<<<>>, <<>>>>]

ShapeGroup == [root |-> <<1, 2>>, sub |-> <<<<>>, <<3>>, <<>>>>]

Shapes == {ShapeFlat, ShapeGroup}

\* A portfolio of one leaf.
ShapeSingle == [root |-> <<1>>, sub |-> << <<>> >>]

\* A portfolio of three leaves.
ShapeTriple == [root |-> <<1, 2, 3>>, sub |-> <<<<>>, <<>>, <<>>>>]

\* Weights of three siblings, in percent, each adding up to 100%.
WeightTriples ==
    {<<10, 45, 45>>, <<10, 70, 20>>, <<50, 25, 25>>, <<0, 50, 50>>, <<20, 30, 50>>}

Nodes(shape) == DOMAIN shape.sub

Leaves(shape) == {n \in Nodes(shape) : shape.sub[n] = <<>>}

\* Weights of a sibling pair, in percent: every split of 100% in quarters,
\* and one that does not add up to 100%.
WeightPairs ==
    {<<0, 100>>, <<25, 75>>, <<50, 50>>, <<75, 25>>, <<100, 0>>, <<50, 25>>}

\* Weights of a group's only holding: 100%, or one that is not.
SingleWeights == {<<100>>, <<50>>}

\* CommissionSpec.__init__: minimum, and the optional percent, per_share
\* and maximum_percent.
CommissionSpecs ==
    {[minimum |-> Dec(0), percent |-> None, per_share |-> None, maximum_percent |-> None],
     [minimum |-> Dec(1), percent |-> None, per_share |-> None, maximum_percent |-> None]}

\* Holding.__init__: a holding as constructed.  weight is the percentage
\* string's number; restrict_selling / restrict_buying set the flags.
Holding(weight, sub, shares, selling, buying) ==
    [expected_weight    |-> DDiv(Dec(weight), Dec(100)),
     weight             |-> DDiv(Dec(weight), Dec(100)),
     is_group           |-> sub # <<>>,
     holdings           |-> sub,
     current_shares     |-> IF sub # <<>> THEN None ELSE Dec(shares),
     shares             |-> IF sub # <<>> THEN None ELSE Dec(shares),
     commission         |-> IF sub # <<>> THEN None ELSE Zero,
     price              |-> None,
     current_value      |-> None,
     value              |-> None,
     minimum_value      |-> None,
     selling_restricted |-> sub = <<>> /\ selling,
     sell_blocked       |-> FALSE,
     maximum_value      |-> None,
     buying_restricted  |-> sub = <<>> /\ buying,
     buy_blocked        |-> FALSE]

VARIABLES
    portfolio,                  \* the Portfolio: root list, commission_spec, free_assets, ...
    fake_prices,                \* calculate's parameter
    holdings,                   \* node -> Holding
    holdings0,                  \* the holdings as constructed (history)
    pc,                         \* calculate's position
    prices,                     \* ticker -> price, None before the lookup
    total_assets,
    rebalance_to,
    rebalanced_value,
    free_assets_to_distribute,
    distributed0,               \* free_assets_to_distribute at line 221 (history)
    underfunded_only,
    calls,                      \* calls of distribute_free_assets in this outer pass
    result,                     \* calculate's return value
    stack,                      \* the corrector's pending levels, innermost first
    succeeded,                  \* the correctors' per-level result
    passes                      \* the passes started so far (history)

vars ==
    <<portfolio, fake_prices, holdings, holdings0, pc, prices, total_assets,
      rebalance_to, rebalanced_value, free_assets_to_distribute, distributed0,
      underfunded_only, calls, result, stack, succeeded, passes>>


(***************************************************************************)
(* Commissions.                                                            *)
(***************************************************************************)

\* CommissionSpec.calculate, lines 46-47: the percent part.
CommissionWithPercent(spec, shares, price) ==
    IF spec.percent # None
    THEN DAdd(Zero, DDiv(DMul(DMul(shares, price), spec.percent), Dec(100)))
    ELSE Zero

\* CommissionSpec.calculate, lines 49-50: plus the per-share part.
CommissionWithPerShare(spec, shares, price) ==
    IF spec.per_share # None
    THEN DAdd(CommissionWithPercent(spec, shares, price), DMul(shares, spec.per_share))
    ELSE CommissionWithPercent(spec, shares, price)

\* CommissionSpec.calculate, lines 52-53: capped by maximum_percent.
CommissionWithMaximum(spec, shares, price) ==
    IF spec.maximum_percent # None
    THEN DMin(CommissionWithPerShare(spec, shares, price),
              DDiv(DMul(DMul(shares, price), spec.maximum_percent), Dec(100)))
    ELSE CommissionWithPerShare(spec, shares, price)

\* CommissionSpec.calculate
CommissionSpecCalculate(spec, shares, price) ==
    DMax(spec.minimum, CommissionWithMaximum(spec, shares, price))

\* Holding.commission_for
CommissionFor(holding, shares, spec) ==
    CommissionSpecCalculate(spec, DAbs(DSub(shares, holding.current_shares)), holding.price)

\* Holding.change
Change(holding, shares, spec) ==
    [holding EXCEPT !.commission = CommissionFor(holding, shares, spec),
                    !.shares = shares,
                    !.value = DMul(shares, holding.price)]

(***************************************************************************)
(* calculate(): validation and valuation.                                  *)
(***************************************************************************)

RECURSIVE DSum(_)
\* sum(values) of a list of Decimals, left to right.
DSum(values) ==
    IF values = <<>> THEN Zero
    ELSE DAdd(DSum(SubSeq(values, 1, Len(values) - 1)), values[Len(values)])

RECURSIVE SumWeights(_, _)
\* sum(holding.expected_weight for holding in holdings)
SumWeights(h, list) ==
    IF list = <<>> THEN Zero
    ELSE DAdd(SumWeights(h, SubSeq(list, 1, Len(list) - 1)), h[list[Len(list)]].expected_weight)

\* process() without its recursion into the groups (a faulty variant: the
\* validation property must reject it).
ProcessRootOnly(h, list) ==
    list # <<>> => SumWeights(h, list) = One

RECURSIVE Process(_, _)
\* calculate.process: TRUE when no Error is raised for the list or below it.
Process(h, list) ==
    /\ (list # <<>> => SumWeights(h, list) = One)
    /\ \A i \in 1..Len(list) : h[list[i]].is_group => Process(h, h[list[i]].holdings)

RECURSIVE CalculateCurrentValue(_, _, _, _)
RECURSIVE ValuedAt(_, _, _, _, _, _)
RECURSIVE GroupValued(_, _, _, _, _)
\* calculate_current_value, with the running total_value: the holdings after
\* it and the total.
CalculateCurrentValue(h, list, pr, total_value) ==
    IF list = <<>> THEN [h |-> h, total |-> total_value]
    ELSE IF h[Head(list)].is_group
    THEN GroupValued(CalculateCurrentValue(h, h[Head(list)].holdings, pr, Zero),
                     Head(list), Tail(list), pr, total_value)
    ELSE ValuedAt([h EXCEPT ![Head(list)].price = pr[Head(list)]], Head(list),
                  DMul(h[Head(list)].current_shares, pr[Head(list)]),
                  Tail(list), pr, total_value)

\* Line 246: the group n takes the value `sub` of its own list.
GroupValued(sub, n, rest, pr, total_value) ==
    ValuedAt(sub.h, n, sub.total, rest, pr, total_value)

\* Lines 246/249 and 251: holding n is valued, the total advances, the loop
\* goes on.
ValuedAt(h, n, value, rest, pr, total_value) ==
    CalculateCurrentValue([h EXCEPT ![n].value = value, ![n].current_value = value],
                          rest, pr, DAdd(total_value, value))

\* Lines 281-282: total_maximum_value of a list.
TotalMaximumValue(maximum_values, list) ==
    IF Len(maximum_values) = Len(list) THEN DSum(maximum_values) ELSE None

RECURSIVE CalculateRestrictions(_, _, _, _)
RECURSIVE RestrictedAt(_, _, _, _, _)
RECURSIVE GroupRestricted(_, _, _, _, _)
\* calculate_restrictions, with total_minimum_value and maximum_values so
\* far: the holdings after it, total_minimum_value and maximum_values.
CalculateRestrictions(h, list, total_minimum_value, maximum_values) ==
    IF list = <<>>
    THEN [h |-> h, minimum |-> total_minimum_value, maximum_values |-> maximum_values]
    ELSE IF h[Head(list)].is_group
    THEN GroupRestricted(CalculateRestrictions(h, h[Head(list)].holdings, None, <<>>),
                         Head(list), Tail(list), total_minimum_value, maximum_values)
    ELSE RestrictedAt([h EXCEPT
                          ![Head(list)].minimum_value =
                              IF h[Head(list)].selling_restricted
                              THEN h[Head(list)].current_value ELSE @,
                          ![Head(list)].maximum_value =
                              IF h[Head(list)].buying_restricted
                              THEN h[Head(list)].current_value ELSE @],
                      Head(list), Tail(list), total_minimum_value, maximum_values)

\* Line 264: the group n takes the bounds `sub` of its own list.
GroupRestricted(sub, n, rest, total_minimum_value, maximum_values) ==
    RestrictedAt([sub.h EXCEPT
                     ![n].minimum_value = sub.minimum,
                     ![n].maximum_value = TotalMaximumValue(sub.maximum_values, sub.h[n].holdings)],
                 n, rest, total_minimum_value, maximum_values)

\* Lines 272-279: holding n's bounds join the list's, the loop goes on.
RestrictedAt(h, n, rest, total_minimum_value, maximum_values) ==
    CalculateRestrictions(
        h, rest,
        IF h[n].minimum_value # None
        THEN (IF total_minimum_value = None THEN h[n].minimum_value
              ELSE DAdd(total_minimum_value, h[n].minimum_value))
        ELSE total_minimum_value,
        IF h[n].maximum_value # None THEN Append(maximum_values, h[n].maximum_value)
        ELSE maximum_values)


(***************************************************************************)
(* The weight correctors.  One iteration of a level's `while True` loop is *)
(* an operator; it yields the holdings after the iteration, `succeeded`,   *)
(* the list correctable_holdings, whether a weight was clamped, and        *)
(* whether a Decimal division raised (a zero divisor).                     *)
(***************************************************************************)

RECURSIVE ExpectedValueOf(_, _, _)
\* Lines 303-305 / 350-352: the expected value of the correctable holdings.
ExpectedValueOf(h, correctable, expected_total_value) ==
    IF correctable = <<>> THEN Zero
    ELSE DAdd(ExpectedValueOf(h, SubSeq(correctable, 1, Len(correctable) - 1), expected_total_value),
              DMul(expected_total_value, h[correctable[Len(correctable)]].weight))

\* Line 296: the holding is pinned at its minimum.
AtMinimum(holding, expected_total_value) ==
    /\ holding.minimum_value # None
    /\ DLe(DMul(expected_total_value, holding.weight), holding.minimum_value)

RECURSIVE SellingScan(_, _, _, _, _)
\* Lines 293-299: total_assets_overuse and correctable_holdings.
SellingScan(h, list, expected_total_value, total_assets_overuse, correctable) ==
    IF list = <<>> THEN [overuse |-> total_assets_overuse, correctable |-> correctable]
    ELSE IF AtMinimum(h[Head(list)], expected_total_value)
    THEN SellingScan(h, Tail(list), expected_total_value,
                     DAdd(total_assets_overuse,
                          DSub(h[Head(list)].minimum_value,
                               DMul(expected_total_value, h[Head(list)].weight))),
                     correctable)
    ELSE SellingScan(h, Tail(list), expected_total_value, total_assets_overuse,
                     Append(correctable, Head(list)))

\* Lines 312-315: the corrected weight would take the holding below its
\* minimum.
BelowMinimum(holding, expected_total_value, corrected_weight) ==
    /\ holding.minimum_value # None
    /\ DLt(DMul(expected_total_value, corrected_weight), holding.minimum_value)

RECURSIVE SellingApply(_, _, _, _, _, _)
\* Lines 309-319: the corrected weights of the correctable holdings.
SellingApply(h, correctable, expected_total_value, correction_multiplicator, ok, clamped) ==
    IF correctable = <<>> THEN [h |-> h, succeeded |-> ok, clamped |-> clamped, failed |-> FALSE]
    ELSE IF BelowMinimum(h[Head(correctable)], expected_total_value,
                         DMul(h[Head(correctable)].weight, correction_multiplicator))
    THEN (IF expected_total_value = Zero
          THEN [h |-> h, succeeded |-> FALSE, clamped |-> clamped, failed |-> TRUE]
          ELSE SellingApply(
                   [h EXCEPT ![Head(correctable)].weight =
                       DDiv(h[Head(correctable)].minimum_value, expected_total_value)],
                   Tail(correctable), expected_total_value, correction_multiplicator,
                   FALSE, TRUE))
    ELSE SellingApply(
             [h EXCEPT ![Head(correctable)].weight =
                 DMul(h[Head(correctable)].weight, correction_multiplicator)],
             Tail(correctable), expected_total_value, correction_multiplicator, ok, clamped)

\* Lines 303-319: the correction of a non-empty correctable list.
SellingCorrect(h, correctable, expected_total_value, total_assets_overuse, expected_value) ==
    IF expected_value = Zero
    THEN [h |-> h, succeeded |-> TRUE, clamped |-> FALSE, failed |-> TRUE,
          correctable |-> correctable]
    ELSE [correctable |-> correctable] @@
         SellingApply(h, correctable, expected_total_value,
                      DDiv(DSub(expected_value, total_assets_overuse), expected_value),
                      TRUE, FALSE)

\* Lines 301-321: what follows the scan.
SellingAfterScan(h, scan, expected_total_value) ==
    IF DGt(scan.overuse, Zero)
    THEN IF scan.correctable # <<>>
         THEN SellingCorrect(h, scan.correctable, expected_total_value, scan.overuse,
                             ExpectedValueOf(h, scan.correctable, expected_total_value))
         ELSE [h |-> h, succeeded |-> FALSE, clamped |-> FALSE, failed |-> FALSE,
               correctable |-> scan.correctable]
    ELSE [h |-> h, succeeded |-> TRUE, clamped |-> FALSE, failed |-> FALSE,
          correctable |-> scan.correctable]

\* Lines 289-321: one iteration of correct_weights_for_selling_restriction.
SellingIteration(h, list, expected_total_value) ==
    SellingAfterScan(h, SellingScan(h, list, expected_total_value, Zero, <<>>),
                     expected_total_value)

\* Line 343: the holding is pinned at its maximum.
AtMaximum(holding, expected_total_value) ==
    /\ holding.maximum_value # None
    /\ DGe(DMul(expected_total_value, holding.weight), holding.maximum_value)

RECURSIVE BuyingScan(_, _, _, _, _)
\* Lines 340-346: extra_assets and correctable_holdings.
BuyingScan(h, list, expected_total_value, extra_assets, correctable) ==
    IF list = <<>> THEN [extra |-> extra_assets, correctable |-> correctable]
    ELSE IF AtMaximum(h[Head(list)], expected_total_value)
    THEN BuyingScan(h, Tail(list), expected_total_value,
                    DAdd(extra_assets,
                         DSub(DMul(expected_total_value, h[Head(list)].weight),
                              h[Head(list)].maximum_value)),
                    correctable)
    ELSE BuyingScan(h, Tail(list), expected_total_value, extra_assets,
                    Append(correctable, Head(list)))

\* Lines 359-362: the corrected weight would take the holding above its
\* maximum.
AboveMaximum(holding, expected_total_value, corrected_weight) ==
    /\ holding.maximum_value # None
    /\ DGt(DMul(expected_total_value, corrected_weight), holding.maximum_value)

RECURSIVE BuyingApply(_, _, _, _, _, _)
\* Lines 356-366: the corrected weights of the correctable holdings.
BuyingApply(h, correctable, expected_total_value, correction_multiplicator, ok, clamped) ==
    IF correctable = <<>> THEN [h |-> h, succeeded |-> ok, clamped |-> clamped, failed |-> FALSE]
    ELSE IF AboveMaximum(h[Head(correctable)], expected_total_value,
                         DMul(h[Head(correctable)].weight, correction_multiplicator))
    THEN (IF expected_total_value = Zero
          THEN [h |-> h, succeeded |-> FALSE, clamped |-> clamped, failed |-> TRUE]
          ELSE BuyingApply(
                   [h EXCEPT ![Head(correctable)].weight =
                       DDiv(h[Head(correctable)].maximum_value, expected_total_value)],
                   Tail(correctable), expected_total_value, correction_multiplicator,
                   FALSE, TRUE))
    ELSE BuyingApply(
             [h EXCEPT ![Head(correctable)].weight =
                 DMul(h[Head(correctable)].weight, correction_multiplicator)],
             Tail(correctable), expected_total_value, correction_multiplicator, ok, clamped)

\* Lines 350-366: the correction of a non-empty correctable list.
BuyingCorrect(h, correctable, expected_total_value, extra_assets, expected_value) ==
    IF expected_value = Zero
    THEN [h |-> h, succeeded |-> TRUE, clamped |-> FALSE, failed |-> TRUE,
          correctable |-> correctable]
    ELSE [correctable |-> correctable] @@
         BuyingApply(h, correctable, expected_total_value,
                     DDiv(DAdd(expected_value, extra_assets), expected_value),
                     TRUE, FALSE)

\* Lines 348-368: what follows the scan.
BuyingAfterScan(h, scan, expected_total_value) ==
    IF scan.extra # Zero
    THEN IF scan.correctable # <<>>
         THEN BuyingCorrect(h, scan.correctable, expected_total_value, scan.extra,
                            ExpectedValueOf(h, scan.correctable, expected_total_value))
         ELSE [h |-> h, succeeded |-> FALSE, clamped |-> FALSE, failed |-> FALSE,
               correctable |-> scan.correctable]
    ELSE [h |-> h, succeeded |-> TRUE, clamped |-> FALSE, failed |-> FALSE,
          correctable |-> scan.correctable]

\* Lines 336-368: one iteration of correct_weights_for_buying_restriction.
BuyingIteration(h, list, expected_total_value) ==
    BuyingAfterScan(h, BuyingScan(h, list, expected_total_value, Zero, <<>>),
                    expected_total_value)

\* A pending call of a corrector: the level (0: the root list, else the
\* group's node), its sibling list and expected_total_value, the retries
\* (`continue`s) so far, the previous iteration's correctable_holdings and
\* whether it clamped a weight, and the correctable_holdings of the iteration
\* before that one.
Frame(level, list, expected_total_value) ==
    [level |-> level, holdings |-> list, expected_total_value |-> expected_total_value,
     retries |-> 0, correctable |-> <<>>, clamped |-> FALSE, previous |-> <<>>]

RECURSIVE SubFrames(_, _, _)
\* Lines 326-329 / 373-376: the recursive calls for the group siblings.
SubFrames(h, list, expected_total_value) ==
    IF list = <<>> THEN <<>>
    ELSE (IF h[Head(list)].is_group
          THEN <<Frame(Head(list), h[Head(list)].holdings,
                       DMul(expected_total_value, h[Head(list)].weight))>>
          ELSE <<>>)
         \o SubFrames(h, Tail(list), expected_total_value)


(***************************************************************************)
(* The rebalancer.                                                         *)
(***************************************************************************)

\* get_weight
GetWeight(assets, value) == IF assets = Zero THEN One ELSE DDiv(value, assets)

\* Lines 402-413 without the two restriction rules (a faulty variant: the
\* restriction property must reject it).
CommitOrBlockUnrestricted(holding, rebalanced_shares, spec, min_trade_volume) ==
    IF rebalanced_shares = holding.current_shares THEN holding
    ELSE IF DLt(DMul(DAbs(DSub(rebalanced_shares, holding.current_shares)), holding.price),
                min_trade_volume)
    THEN (IF DLt(rebalanced_shares, holding.current_shares)
          THEN [holding EXCEPT !.sell_blocked = TRUE]
          ELSE [holding EXCEPT !.buy_blocked = TRUE])
    ELSE Change(holding, rebalanced_shares, spec)

\* Lines 402-413: the blocking rules, then the trade.
CommitOrBlock(holding, rebalanced_shares, spec, min_trade_volume) ==
    IF rebalanced_shares = holding.current_shares THEN holding
    ELSE IF DLt(rebalanced_shares, holding.current_shares) /\ holding.selling_restricted
    THEN [holding EXCEPT !.sell_blocked = TRUE]
    ELSE IF DGt(rebalanced_shares, holding.current_shares) /\ holding.buying_restricted
    THEN [holding EXCEPT !.buy_blocked = TRUE]
    ELSE IF DLt(DMul(DAbs(DSub(rebalanced_shares, holding.current_shares)), holding.price),
                min_trade_volume)
    THEN (IF DLt(rebalanced_shares, holding.current_shares)
          THEN [holding EXCEPT !.sell_blocked = TRUE]
          ELSE [holding EXCEPT !.buy_blocked = TRUE])
    ELSE Change(holding, rebalanced_shares, spec)

\* Lines 398-400: the share count once the commission is paid out of the
\* target; failed when the // raises.
RebalanceWithCommission(holding, expected_value, spec, min_trade_volume, commission) ==
    IF FloorDivFails(DSub(expected_value, commission), holding.price)
    THEN [holding |-> holding, failed |-> TRUE]
    ELSE [holding |-> CommitOrBlock(holding,
                                    DFloorDiv(DSub(expected_value, commission), holding.price),
                                    spec, min_trade_volume),
          failed |-> FALSE]

\* Lines 396-413: the trade towards expected_value.
RebalanceTo(holding, expected_value, spec, min_trade_volume) ==
    IF FloorDivFails(expected_value, holding.price)
    THEN [holding |-> holding, failed |-> TRUE]
    ELSE IF DFloorDiv(expected_value, holding.price) # holding.current_shares
    THEN RebalanceWithCommission(
             holding, expected_value, spec, min_trade_volume,
             CommissionFor(holding, DFloorDiv(expected_value, holding.price), spec))
    ELSE [holding |-> holding, failed |-> FALSE]

\* Lines 390-413: rebalance's leaf branch; failed when a // raises.
RebalanceLeaf(holding, expected_total_value, spec, min_trade_volume) ==
    IF GetWeight(expected_total_value, holding.current_value) = holding.weight
    THEN [holding |-> holding, failed |-> FALSE]
    ELSE RebalanceTo(holding, DMul(expected_total_value, holding.weight), spec,
                     min_trade_volume)

RECURSIVE Rebalance(_, _, _, _, _, _)
RECURSIVE RebalancedAt(_, _, _, _, _, _, _, _)
\* rebalance, with the running total_value: the holdings after it, the
\* returned total and whether a Decimal operation raised.
Rebalance(h, list, expected_total_value, spec, min_trade_volume, total_value) ==
    IF list = <<>> THEN [h |-> h, total |-> total_value, failed |-> FALSE]
    ELSE RebalancedAt(
             IF h[Head(list)].is_group
             THEN Rebalance(h, h[Head(list)].holdings,
                            DMul(expected_total_value, h[Head(list)].weight),
                            spec, min_trade_volume, Zero)
             ELSE RebalanceLeaf(h[Head(list)], expected_total_value, spec, min_trade_volume),
             h, Head(list), Tail(list), expected_total_value, spec, min_trade_volume, total_value)

\* Lines 388/413 and 415: holding n takes the outcome r (of its own list, or
\* of the leaf branch), the total advances, the loop goes on.
RebalancedAt(r, h, n, rest, expected_total_value, spec, min_trade_volume, total_value) ==
    IF r.failed
    THEN [h |-> IF h[n].is_group THEN r.h ELSE [h EXCEPT ![n] = r.holding],
          total |-> total_value, failed |-> TRUE]
    ELSE IF h[n].is_group
    THEN Rebalance([r.h EXCEPT ![n].value = r.total], rest, expected_total_value, spec,
                   min_trade_volume, DAdd(total_value, r.total))
    ELSE Rebalance([h EXCEPT ![n] = r.holding], rest, expected_total_value, spec,
                   min_trade_volume, DAdd(total_value, r.holding.value))

RECURSIVE CalculateTotalCommissions(_, _)
\* calculate_total_commissions
CalculateTotalCommissions(h, list) ==
    IF list = <<>> THEN Zero
    ELSE DAdd(CalculateTotalCommissions(h, SubSeq(list, 1, Len(list) - 1)),
              IF h[list[Len(list)]].is_group
              THEN CalculateTotalCommissions(h, h[list[Len(list)]].holdings)
              ELSE h[list[Len(list)]].commission)

(***************************************************************************)
(* The free-cash distributor.                                              *)
(***************************************************************************)

\* distribute_free_assets.difference_from_expected, the sort key.
DifferenceFromExpected(holding, expected_total_value) ==
    IF DMul(expected_total_value, holding.expected_weight) = Zero THEN DNeg(holding.value)
    ELSE DDiv(DSub(DMul(expected_total_value, holding.expected_weight), holding.value),
              DMul(expected_total_value, holding.expected_weight))

RECURSIVE InsertByKey(_, _, _, _)
\* n placed behind every element whose key is not smaller than its own.
InsertByKey(sorted, n, h, expected_total_value) ==
    IF sorted = <<>> THEN <<n>>
    ELSE IF DLt(DifferenceFromExpected(h[Head(sorted)], expected_total_value),
                DifferenceFromExpected(h[n], expected_total_value))
    THEN <<n>> \o sorted
    ELSE <<Head(sorted)>> \o InsertByKey(Tail(sorted), n, h, expected_total_value)

RECURSIVE SortedByDifference(_, _, _)
\* sorted(holdings, key=difference_from_expected, reverse=True): descending
\* and stable.
SortedByDifference(list, h, expected_total_value) ==
    IF list = <<>> THEN <<>>
    ELSE InsertByKey(SortedByDifference(SubSeq(list, 1, Len(list) - 1), h, expected_total_value),
                     list[Len(list)], h, expected_total_value)

\* Line 479: min_trade_shares.
MinTradeShares(holding, min_trade_volume) ==
    Dec(DCeil(DDiv(min_trade_volume, holding.price)))

\* Lines 481-483: min_extra_shares before the max with 1.
MinExtraShares(holding, min_trade_volume) ==
    IF DGt(holding.shares, holding.current_shares)
    THEN DSub(MinTradeShares(holding, min_trade_volume),
              DSub(holding.shares, holding.current_shares))
    ELSE MinTradeShares(holding, min_trade_volume)

\* limit_extra_shares_to_minimum without the floor of one share (a faulty
\* variant: the spending property must reject it).
LimitExtraSharesWithoutFloor(holding, extra_shares, min_trade_volume) ==
    DMin(extra_shares, DMax(Zero, MinExtraShares(holding, min_trade_volume)))

\* limit_extra_shares_to_minimum
LimitExtraSharesToMinimum(holding, extra_shares, min_trade_volume) ==
    DMin(extra_shares, DMax(One, MinExtraShares(holding, min_trade_volume)))

\* Lines 467-469 without the minimum trade volume rule of lines 470-471 (a
\* faulty variant: the minimum trade size property must reject it).
TradeForbiddenByRestriction(holding, result_shares, min_trade_volume) ==
    \/ DLt(result_shares, holding.current_shares) /\ holding.selling_restricted
    \/ DGt(result_shares, holding.current_shares) /\ holding.buying_restricted

\* Lines 467-471: whether a restriction or the minimum trade volume forbids
\* ending with result_shares.
TradeForbidden(holding, result_shares, min_trade_volume) ==
    \/ DLt(result_shares, holding.current_shares) /\ holding.selling_restricted
    \/ DGt(result_shares, holding.current_shares) /\ holding.buying_restricted
    \/ DLt(DMul(DAbs(DSub(result_shares, holding.current_shares)), holding.price),
           min_trade_volume)

\* Line 473: the cash left after a committed purchase.
FreeAssetsAfter(free_assets, extra_shares, price, commission, previous_commission) ==
    DSub(free_assets, DSub(DMul(extra_shares, price), DSub(commission, previous_commission)))

\* Lines 464-473: the purchase of extra_shares, unless forbidden.
DistributeCommit(holding, free_assets, spec, min_trade_volume, extra_shares) ==
    IF /\ DGt(extra_shares, Zero)
       /\ ~TradeForbidden(holding, DAdd(holding.shares, extra_shares), min_trade_volume)
    THEN [holding |-> Change(holding, DAdd(holding.shares, extra_shares), spec),
          free |-> FreeAssetsAfter(
                       free_assets, extra_shares, holding.price,
                       CommissionFor(holding, DAdd(holding.shares, extra_shares), spec),
                       holding.commission),
          failed |-> FALSE]
    ELSE [holding |-> holding, free |-> free_assets, failed |-> FALSE]

\* Lines 461-462: extra_shares once the commission is paid out of the cash;
\* failed when the // raises.
DistributeWithCommission(holding, free_assets, spec, min_trade_volume, commission) ==
    IF FloorDivFails(DSub(DAdd(free_assets, holding.commission), commission), holding.price)
    THEN [holding |-> holding, free |-> free_assets, failed |-> TRUE]
    ELSE DistributeCommit(
             holding, free_assets, spec, min_trade_volume,
             LimitExtraSharesToMinimum(
                 holding,
                 DFloorDiv(DSub(DAdd(free_assets, holding.commission), commission),
                           holding.price),
                 min_trade_volume))

\* Lines 458-473: what follows the first estimate of extra_shares.
DistributeExtra(holding, free_assets, spec, min_trade_volume, extra_shares) ==
    IF DGt(extra_shares, Zero)
    THEN DistributeWithCommission(
             holding, free_assets, spec, min_trade_volume,
             CommissionSpecCalculate(
                 spec,
                 DAbs(DSub(DAdd(holding.shares, extra_shares), holding.current_shares)),
                 holding.price))
    ELSE DistributeCommit(holding, free_assets, spec, min_trade_volume, extra_shares)

\* Lines 454-473: distribute_free_assets' leaf branch: the holding and the
\* cash after it; failed when a // raises.
DistributeLeaf(holding, free_assets, spec, min_trade_volume) ==
    IF FloorDivFails(DAdd(free_assets, holding.commission), holding.price)
    THEN [holding |-> holding, free |-> free_assets, failed |-> TRUE]
    ELSE DistributeExtra(
             holding, free_assets, spec, min_trade_volume,
             LimitExtraSharesToMinimum(
                 holding, DFloorDiv(DAdd(free_assets, holding.commission), holding.price),
                 min_trade_volume))

RECURSIVE ValuesOf(_, _)
\* [holding.value for holding in holdings]
ValuesOf(h, list) ==
    IF list = <<>> THEN <<>> ELSE <<h[Head(list)].value>> \o ValuesOf(h, Tail(list))

RECURSIVE DistributeOver(_, _, _, _, _, _, _)
RECURSIVE DistributeFreeAssets(_, _, _, _, _, _, _)
RECURSIVE DistributedAt(_, _, _, _, _, _, _, _)
\* distribute_free_assets: the holdings after it, the returned cash and
\* whether a Decimal operation raised.
DistributeFreeAssets(h, list, expected_total_value, free_assets, spec, min_trade_volume, only) ==
    DistributeOver(h, SortedByDifference(list, h, expected_total_value), expected_total_value,
                   free_assets, spec, min_trade_volume, only)

\* Lines 443-475: the loop over the sorted holdings.
DistributeOver(h, order, expected_total_value, free_assets, spec, min_trade_volume, only) ==
    IF order = <<>> \/ DLe(free_assets, Zero)
    THEN [h |-> h, free |-> free_assets, failed |-> FALSE]
    ELSE IF h[Head(order)].is_group
    THEN DistributedAt(
             DistributeFreeAssets(h, h[Head(order)].holdings,
                                  DMul(expected_total_value, h[Head(order)].expected_weight),
                                  free_assets, spec, min_trade_volume, only),
             h, Head(order), Tail(order), expected_total_value, spec, min_trade_volume, only)
    ELSE IF ~only \/ DLt(h[Head(order)].value,
                         DMul(expected_total_value, h[Head(order)].expected_weight))
    THEN DistributedAt(
             DistributeLeaf(h[Head(order)], free_assets, spec, min_trade_volume),
             h, Head(order), Tail(order), expected_total_value, spec, min_trade_volume, only)
    ELSE DistributeOver(h, Tail(order), expected_total_value, free_assets, spec,
                        min_trade_volume, only)

\* Lines 450-452 / 472-473: holding n takes the outcome r (of its own list,
\* or of the leaf branch), the loop goes on with the cash left.
DistributedAt(r, h, n, rest, expected_total_value, spec, min_trade_volume, only) ==
    IF r.failed
    THEN [h |-> IF h[n].is_group THEN r.h ELSE [h EXCEPT ![n] = r.holding],
          free |-> r.free, failed |-> TRUE]
    ELSE IF h[n].is_group
    THEN DistributeOver([r.h EXCEPT ![n].value = DSum(ValuesOf(r.h, h[n].holdings))],
                        rest, expected_total_value, r.free, spec, min_trade_volume, only)
    ELSE DistributeOver([h EXCEPT ![n] = r.holding],
                        rest, expected_total_value, r.free, spec, min_trade_volume, only)


(***************************************************************************)
(* calculate() as a state machine.                                         *)
(***************************************************************************)

\* The restrictions a leaf may carry: none, selling, buying.
Restrictions == {<<FALSE, FALSE>>, <<TRUE, FALSE>>, <<FALSE, TRUE>>}

\* The node's weight, given the weights of the root list and of the group's
\* list.
WeightOf(n, root_weights, sub_weights) ==
    IF n <= 2 THEN root_weights[n] ELSE sub_weights[n - 2]

\* The portfolios and calls the model starts from.
Init ==
    \E shape \in Shapes, root_weights \in WeightPairs :
    \E sub_weights \in (IF shape = ShapeGroup THEN SingleWeights ELSE {<<>>}) :
    \E shares \in [Leaves(shape) -> 0..MaxShares],
       restrictions \in [Leaves(shape) -> Restrictions],
       spec \in CommissionSpecs,
       free \in 0..MaxFreeAssets,
       min_free \in 0..MaxMinFreeAssets,
       min_trade \in {0, MaxTradeVolume},
       fake \in BOOLEAN :
        /\ portfolio = [holdings |-> shape.root,
                        commission_spec |-> spec,
                        free_assets |-> Dec(free),
                        min_free_assets |-> Dec(min_free),
                        min_trade_volume |-> Dec(min_trade)]
        /\ fake_prices = fake
        /\ holdings = [n \in Nodes(shape) |->
                          Holding(WeightOf(n, root_weights, sub_weights), shape.sub[n],
                                  IF n \in Leaves(shape) THEN shares[n] ELSE 0,
                                  n \in Leaves(shape) /\ restrictions[n][1],
                                  n \in Leaves(shape) /\ restrictions[n][2])]
        /\ holdings0 = holdings
        /\ pc = "process"
        /\ prices = None
        /\ total_assets = None
        /\ rebalance_to = None
        /\ rebalanced_value = None
        /\ free_assets_to_distribute = None
        /\ distributed0 = None
        /\ underfunded_only = TRUE
        /\ calls = 0
        /\ result = None
        /\ stack = <<>>
        /\ succeeded = <<>>
        /\ passes = <<>>

Tickers == {n \in DOMAIN holdings : ~holdings[n].is_group}

\* Lines 192-202: process(): an Error for weights that do not sum to 1, else
\* on to the price lookup.
Process_ ==
    /\ pc = "process"
    /\ pc' = IF Process(holdings, portfolio.holdings) THEN "get_prices" ELSE "config_error"
    /\ UNCHANGED <<portfolio, fake_prices, holdings, holdings0, prices, total_assets,
                   rebalance_to, rebalanced_value, free_assets_to_distribute, distributed0,
                   underfunded_only, calls, result, stack, succeeded, passes>>

\* Lines 204-207: the prices: 1 for every ticker in a preview, else what
\* get_prices returns.
GetPrices ==
    /\ pc = "get_prices"
    /\ \E quotes \in [Tickers -> 1..MaxPrice] :
          prices' = [n \in Tickers |-> IF fake_prices THEN One ELSE Dec(quotes[n])]
    /\ pc' = "valuation"
    /\ UNCHANGED <<portfolio, fake_prices, holdings, holdings0, total_assets,
                   rebalance_to, rebalanced_value, free_assets_to_distribute, distributed0,
                   underfunded_only, calls, result, stack, succeeded, passes>>

\* Lines 653-654 (and 616, 620, 634): get_prices raises; the run ends.
GetPricesFails ==
    /\ pc = "get_prices"
    /\ ~fake_prices
    /\ pc' = "price_error"
    /\ UNCHANGED <<portfolio, fake_prices, holdings, holdings0, prices, total_assets,
                   rebalance_to, rebalanced_value, free_assets_to_distribute, distributed0,
                   underfunded_only, calls, result, stack, succeeded, passes>>

\* Lines 209-211: the valuation pass and the totals.
Valuation ==
    /\ pc = "valuation"
    /\ \E r \in {CalculateCurrentValue(holdings, portfolio.holdings, prices, Zero)} :
          /\ holdings' = r.h
          /\ total_assets' = DAdd(r.total, portfolio.free_assets)
          /\ rebalance_to' = DSub(DAdd(r.total, portfolio.free_assets), portfolio.min_free_assets)
    /\ pc' = IF fake_prices THEN "rebalance" ELSE "restrictions"
    /\ passes' = Append(passes, "valuation")
    /\ UNCHANGED <<portfolio, fake_prices, holdings0, prices, rebalanced_value,
                   free_assets_to_distribute, distributed0, underfunded_only, calls, result,
                   stack, succeeded>>

\* The order the calls at lines 215 and 216 would have were the
\* selling-correction to come first (a faulty variant: the pass order
\* property must reject it).
PassAfterSellingFirst(pass) ==
    IF pass = "restrictions" THEN "selling"
    ELSE IF pass = "selling" THEN "buying"
    ELSE "rebalance"

\* Lines 214-218: the pass that follows `pass` in a live run: line 215 calls
\* the buying-correction, line 216 the selling-correction, line 218 the
\* rebalancer.
PassAfter(pass) ==
    IF pass = "restrictions" THEN "buying"
    ELSE IF pass = "buying" THEN "selling"
    ELSE "rebalance"

\* Line 214: the restriction propagator; then the first corrector call is
\* pending.
CalculateRestrictions_ ==
    /\ pc = "restrictions"
    /\ holdings' = CalculateRestrictions(holdings, portfolio.holdings, None, <<>>).h
    /\ pc' = PassAfter("restrictions")
    /\ stack' = <<Frame(0, portfolio.holdings, rebalance_to)>>
    /\ passes' = Append(passes, "restrictions")
    /\ UNCHANGED <<portfolio, fake_prices, holdings0, prices, total_assets, rebalance_to,
                   rebalanced_value, free_assets_to_distribute, distributed0,
                   underfunded_only, calls, result, succeeded>>

\* The stack once the innermost pending call has returned: its recursive
\* calls first, then what was pending.
AfterReturn(h) ==
    SubFrames(h, Head(stack).holdings, Head(stack).expected_total_value) \o Tail(stack)

\* What one iteration `it` of the innermost pending corrector call leads to:
\* an exception, a retry (`continue`), or the recursive calls and the
\* return; after the outermost return, the pass `next`.
CorrectorStep(it, next) ==
    /\ holdings' = it.h
    /\ IF it.failed
       THEN /\ pc' = "arith_error"
            /\ UNCHANGED <<stack, succeeded>>
       ELSE IF ~it.succeeded /\ it.correctable # <<>>
       THEN /\ pc' = IF Head(stack).retries < MaxRetries THEN pc ELSE "diverged"
            /\ stack' = <<[Head(stack) EXCEPT !.retries = @ + 1,
                                              !.correctable = it.correctable,
                                              !.clamped = it.clamped,
                                              !.previous = Head(stack).correctable]>>
                         \o Tail(stack)
            /\ UNCHANGED succeeded
       ELSE /\ succeeded' = Append(succeeded, <<pc, Head(stack).level, it.succeeded>>)
            /\ IF AfterReturn(it.h) # <<>>
               THEN /\ pc' = pc
                    /\ stack' = AfterReturn(it.h)
               ELSE /\ pc' = next
                    /\ stack' = IF next # "rebalance"
                                THEN <<Frame(0, portfolio.holdings, rebalance_to)>>
                                ELSE <<>>

\* Lines 334-378: one iteration of the innermost pending call of
\* correct_weights_for_buying_restriction.
CorrectWeightsForBuyingRestriction ==
    /\ pc = "buying"
    /\ CorrectorStep(BuyingIteration(holdings, Head(stack).holdings,
                                     Head(stack).expected_total_value), PassAfter("buying"))
    /\ passes' = IF Head(stack).level = 0 /\ Head(stack).retries = 0
                 THEN Append(passes, "buying") ELSE passes
    /\ UNCHANGED <<portfolio, fake_prices, holdings0, prices, total_assets, rebalance_to,
                   rebalanced_value, free_assets_to_distribute, distributed0,
                   underfunded_only, calls, result>>

\* Lines 287-331: one iteration of the innermost pending call of
\* correct_weights_for_selling_restriction.
CorrectWeightsForSellingRestriction ==
    /\ pc = "selling"
    /\ CorrectorStep(SellingIteration(holdings, Head(stack).holdings,
                                      Head(stack).expected_total_value), PassAfter("selling"))
    /\ passes' = IF Head(stack).level = 0 /\ Head(stack).retries = 0
                 THEN Append(passes, "selling") ELSE passes
    /\ UNCHANGED <<portfolio, fake_prices, holdings0, prices, total_assets, rebalance_to,
                   rebalanced_value, free_assets_to_distribute, distributed0,
                   underfunded_only, calls, result>>

\* Lines 218-221: the rebalancer and the cash it leaves.
Rebalance_ ==
    /\ pc = "rebalance"
    /\ \E r \in {Rebalance(holdings, portfolio.holdings, rebalance_to,
                           portfolio.commission_spec, portfolio.min_trade_volume, Zero)} :
          /\ holdings' = r.h
          /\ IF r.failed
             THEN /\ pc' = "arith_error"
                  /\ UNCHANGED <<rebalanced_value, free_assets_to_distribute, distributed0>>
             ELSE \E free_assets \in
                         {DSub(DSub(total_assets, r.total),
                               CalculateTotalCommissions(r.h, portfolio.holdings))} :
                      /\ pc' = "distribute"
                      /\ rebalanced_value' = r.total
                      /\ free_assets_to_distribute' = DSub(free_assets, portfolio.min_free_assets)
                      /\ distributed0' = DSub(free_assets, portfolio.min_free_assets)
    /\ passes' = Append(passes, "rebalance")
    /\ UNCHANGED <<portfolio, fake_prices, holdings0, prices, total_assets, rebalance_to,
                   underfunded_only, calls, result, stack, succeeded>>

\* Lines 223 and 234-238: the end of an outer pass: the unrestricted pass
\* follows the underfunded-only one, the result follows the unrestricted.
EndOuterPass(h, cash) ==
    IF underfunded_only
    THEN /\ pc' = pc
         /\ underfunded_only' = FALSE
         /\ calls' = 0
         /\ UNCHANGED result
    ELSE /\ pc' = "done"
         /\ result' = [rebalanced_value |-> DSum(ValuesOf(h, portfolio.holdings)),
                       free_assets |-> DAdd(cash, portfolio.min_free_assets),
                       commissions |-> CalculateTotalCommissions(h, portfolio.holdings)]
         /\ UNCHANGED <<underfunded_only, calls>>

\* Line 223: the distribution pass has started once its loop is entered.
DistributionStarted ==
    IF passes[Len(passes)] = "distribution" THEN passes ELSE Append(passes, "distribution")

\* Lines 224-232: one call of distribute_free_assets from calculate; a call
\* that leaves the cash as it was ends the outer pass.  An outer pass still
\* calling after MaxCalls calls is not followed further.
DistributeFreeAssets_ ==
    /\ pc = "distribute"
    /\ DGt(free_assets_to_distribute, Zero)
    /\ \E r \in {DistributeFreeAssets(holdings, portfolio.holdings, rebalanced_value,
                                      free_assets_to_distribute, portfolio.commission_spec,
                                      portfolio.min_trade_volume, underfunded_only)} :
          /\ holdings' = r.h
          /\ IF r.failed
             THEN /\ pc' = "arith_error"
                  /\ UNCHANGED <<free_assets_to_distribute, underfunded_only, calls, result>>
             ELSE IF r.free = free_assets_to_distribute
             THEN /\ EndOuterPass(r.h, free_assets_to_distribute)
                  /\ UNCHANGED free_assets_to_distribute
             ELSE /\ free_assets_to_distribute' = r.free
                  /\ calls' = calls + 1
                  /\ pc' = IF calls < MaxCalls THEN pc ELSE "runaway"
                  /\ UNCHANGED <<underfunded_only, result>>
    /\ passes' = DistributionStarted
    /\ UNCHANGED <<portfolio, fake_prices, holdings0, prices, total_assets, rebalance_to,
                   rebalanced_value, distributed0, stack, succeeded>>

\* Line 224: no cash to distribute: the outer pass ends without a call.
NothingToDistribute ==
    /\ pc = "distribute"
    /\ DLe(free_assets_to_distribute, Zero)
    /\ EndOuterPass(holdings, free_assets_to_distribute)
    /\ passes' = DistributionStarted
    /\ UNCHANGED <<portfolio, fake_prices, holdings, holdings0, prices, total_assets,
                   rebalance_to, rebalanced_value, free_assets_to_distribute, distributed0,
                   stack, succeeded>>

Next ==
    \/ Process_
    \/ GetPrices
    \/ GetPricesFails
    \/ Valuation
    \/ CalculateRestrictions_
    \/ CorrectWeightsForBuyingRestriction
    \/ CorrectWeightsForSellingRestriction
    \/ Rebalance_
    \/ DistributeFreeAssets_
    \/ NothingToDistribute

Spec == Init /\ [][Next]_vars


(***************************************************************************)
(* The free-cash distributor on its own: lines 223-238 of calculate() run  *)
(* on holdings and cash drawn from bounded sets, as distribute_free_assets *)
(* receives them: valued holdings nobody has traded yet, their total as    *)
(* the expected total value, and any amount of cash.                       *)
(***************************************************************************)

\* A schedule that charges per share, more than the cheapest share costs.
CommissionPerShare ==
    [minimum |-> Zero, percent |-> None, per_share |-> Dec(MaxPrice), maximum_percent |-> None]

\* The weights of the root list of a shape that pass process().
ValidRootWeights(shape) ==
    IF shape = ShapeSingle THEN {<<100>>}
    ELSE {w \in WeightPairs : w[1] + w[2] = 100}

InitDistribution ==
    \E shape \in Shapes \cup {ShapeSingle} :
    \E root_weights \in ValidRootWeights(shape),
       shares \in [Leaves(shape) -> 0..MaxShares],
       quotes \in [Leaves(shape) -> 1..MaxPrice],
       spec \in CommissionSpecs \cup {CommissionPerShare},
       cash \in 0..MaxCash,
       min_trade \in {0, MaxTradeVolume} :
    \E r \in {CalculateCurrentValue(
                  [n \in Nodes(shape) |->
                      Holding(WeightOf(n, root_weights, <<100>>), shape.sub[n],
                              IF n \in Leaves(shape) THEN shares[n] ELSE 0, FALSE, FALSE)],
                  shape.root, [n \in Leaves(shape) |-> Dec(quotes[n])], Zero)} :
        /\ portfolio = [holdings |-> shape.root,
                        commission_spec |-> spec,
                        free_assets |-> Dec(cash),
                        min_free_assets |-> Zero,
                        min_trade_volume |-> Dec(min_trade)]
        /\ fake_prices = FALSE
        /\ holdings = r.h
        /\ holdings0 = r.h
        /\ pc = "distribute"
        /\ prices = [n \in Leaves(shape) |-> Dec(quotes[n])]
        /\ total_assets = DAdd(r.total, Dec(cash))
        /\ rebalance_to = DAdd(r.total, Dec(cash))
        /\ rebalanced_value = r.total
        /\ free_assets_to_distribute = Dec(cash)
        /\ distributed0 = Dec(cash)
        /\ underfunded_only = TRUE
        /\ calls = 0
        /\ result = None
        /\ stack = <<>>
        /\ succeeded = <<>>
        /\ passes = <<"rebalance">>

NextDistribution ==
    \/ DistributeFreeAssets_
    \/ NothingToDistribute

SpecDistribution == InitDistribution /\ [][NextDistribution]_vars


(***************************************************************************)
(* The selling-correction on its own: correct_weights_for_selling_         *)
(* restriction run on a list of three sibling leaves, valued at a price of *)
(* 1 and with their restrictions propagated, whose weights are the         *)
(* configured ones (nobody has corrected them yet): a level at which a     *)
(* clamp leaves a correctable sibling for the retry.                       *)
(***************************************************************************)

\* calculate_restrictions over the valued list.
ValuedAndRestricted(h, list, pr) ==
    CalculateRestrictions(CalculateCurrentValue(h, list, pr, Zero).h, list, None, <<>>).h

InitSelling ==
    \E weights \in WeightTriples,
       shares \in [Leaves(ShapeTriple) -> 0..MaxSiblingShares],
       selling \in [Leaves(ShapeTriple) -> BOOLEAN],
       free \in 0..MaxFreeAssets :
    \E h \in {ValuedAndRestricted(
                  [n \in Nodes(ShapeTriple) |->
                      Holding(weights[n], <<>>, shares[n], selling[n], FALSE)],
                  ShapeTriple.root, [n \in Leaves(ShapeTriple) |-> One])} :
        /\ portfolio = [holdings |-> ShapeTriple.root,
                        commission_spec |-> [minimum |-> Zero, percent |-> None,
                                             per_share |-> None, maximum_percent |-> None],
                        free_assets |-> Dec(free),
                        min_free_assets |-> Zero,
                        min_trade_volume |-> Zero]
        /\ fake_prices = FALSE
        /\ holdings = h
        /\ holdings0 = h
        /\ pc = "selling"
        /\ prices = [n \in Leaves(ShapeTriple) |-> One]
        /\ total_assets = DAdd(DSum(ValuesOf(h, ShapeTriple.root)), Dec(free))
        /\ rebalance_to = DAdd(DSum(ValuesOf(h, ShapeTriple.root)), Dec(free))
        /\ rebalanced_value = None
        /\ free_assets_to_distribute = None
        /\ distributed0 = None
        /\ underfunded_only = TRUE
        /\ calls = 0
        /\ result = None
        /\ stack = <<Frame(0, ShapeTriple.root,
                           DAdd(DSum(ValuesOf(h, ShapeTriple.root)), Dec(free)))>>
        /\ succeeded = <<>>
        /\ passes = <<"buying">>

NextSelling == CorrectWeightsForSellingRestriction

SpecSelling == InitSelling /\ [][NextSelling]_vars


(***************************************************************************)
(* Properties.                                                             *)
(***************************************************************************)

\* The leaves, in node order.
LeafNodes == SelectSeq([n \in DOMAIN holdings |-> n], LAMBDA n : ~holdings[n].is_group)

LeafSet == {LeafNodes[i] : i \in DOMAIN LeafNodes}

\* The group nodes.
GroupSet == {n \in DOMAIN holdings : holdings[n].is_group}

SeqSet(s) == {s[i] : i \in DOMAIN s}

IsPrefix(s, t) == Len(s) <= Len(t) /\ s = SubSeq(t, 1, Len(s))

Unrestricted ==
    \A n \in LeafSet : ~holdings[n].selling_restricted /\ ~holdings[n].buying_restricted

ZeroCommission ==
    /\ portfolio.commission_spec.minimum = Zero
    /\ portfolio.commission_spec.percent = None
    /\ portfolio.commission_spec.per_share = None

Traded(n) == holdings[n].shares # holdings[n].current_shares

Blocked(n) == holdings[n].sell_blocked \/ holdings[n].buy_blocked

\* C1: when calculate() returns, the value of all leaves plus the returned
\* free_assets plus the commission of all leaves equals the total assets at
\* the start of the run: current_shares x price over all leaves plus
\* portfolio.free_assets.
Conservation ==
    pc = "done" =>
        DAdd(DAdd(DSum([i \in DOMAIN LeafNodes |-> holdings[LeafNodes[i]].value]),
                  result.free_assets),
             DSum([i \in DOMAIN LeafNodes |-> holdings[LeafNodes[i]].commission]))
          = DAdd(DSum([i \in DOMAIN LeafNodes |->
                          DMul(holdings0[LeafNodes[i]].current_shares, prices[LeafNodes[i]])]),
                 portfolio.free_assets)

\* C2: in every reachable state a leaf with selling_restricted has
\* shares >= current_shares and a leaf with buying_restricted has
\* shares <= current_shares.
RestrictionEnforcement ==
    \A n \in LeafSet :
        /\ holdings[n].selling_restricted
              => DGe(holdings[n].shares, holdings[n].current_shares)
        /\ holdings[n].buying_restricted
              => DLe(holdings[n].shares, holdings[n].current_shares)

\* A finished run in which the rebalancer wanted to sell a selling-restricted
\* leaf and to buy a buying-restricted one, and blocked both.
RestrictionEnforcementWitness ==
    /\ pc = "done"
    /\ \E n \in LeafSet : holdings[n].selling_restricted /\ holdings[n].sell_blocked
    /\ \E n \in LeafSet : holdings[n].buying_restricted /\ holdings[n].buy_blocked

\* Every leaf either has shares = current_shares or has
\* |shares - current_shares| x price >= min_trade_volume.
NoSmallTrade(h) ==
    \A n \in {m \in DOMAIN h : ~h[m].is_group} :
        \/ h[n].shares = h[n].current_shares
        \/ DGe(DMul(DAbs(DSub(h[n].shares, h[n].current_shares)), h[n].price),
               portfolio.min_trade_volume)

\* A step that changes a leaf's shares (a trade committed through
\* Holding.change) leaves it with
\* |shares - current_shares| x price >= min_trade_volume.
CommittedTradesAreLarge ==
    \A n \in LeafSet :
        holdings'[n].shares # holdings[n].shares
            => DGe(DMul(DAbs(DSub(holdings'[n].shares, holdings[n].current_shares)),
                        holdings[n].price),
                   portfolio.min_trade_volume)

\* C3: every trade committed by the rebalancer or by the free-cash
\* distributor leaves the leaf with
\* |shares - current_shares| x price >= min_trade_volume; in every reachable
\* state each leaf either has shares = current_shares or satisfies that
\* inequality.
MinimumTradeSize ==
    /\ []NoSmallTrade(holdings)
    /\ [][CommittedTradesAreLarge]_vars

\* A finished run with a positive min_trade_volume in which one leaf was
\* traded and the trade of another, unrestricted one was blocked for its
\* size.
MinimumTradeSizeWitness ==
    /\ pc = "done"
    /\ DGt(portfolio.min_trade_volume, Zero)
    /\ \E n \in LeafSet : Traded(n)
    /\ \E n \in LeafSet :
          /\ Blocked(n)
          /\ ~holdings[n].selling_restricted
          /\ ~holdings[n].buying_restricted

\* The passes in the order the specification gives them.
SellingFirstOrder ==
    <<"valuation", "restrictions", "selling", "buying", "rebalance", "distribution">>

\* The passes in the order of lines 209-232.
BuyingFirstOrder ==
    <<"valuation", "restrictions", "buying", "selling", "rebalance", "distribution">>

\* The levels (0: the root list, else the group) at which the corrector
\* `pass` has returned.
Returned(pass) == {succeeded[i][2] : i \in {j \in DOMAIN succeeded : succeeded[j][1] = pass}}

\* C4 as stated: a live run executes valuation, restriction propagation,
\* selling-correction, buying-correction, rebalance and free-cash
\* distribution in this order, the buying-correction starting only after the
\* selling-correction has returned at every level.
PassOrdering ==
    ~fake_prices =>
        /\ IsPrefix(passes, SellingFirstOrder)
        /\ pc = "done" => passes = SellingFirstOrder
        /\ "buying" \in SeqSet(passes) => Returned("selling") = {0} \cup GroupSet

\* C4, amended: a live run executes valuation, restriction propagation,
\* buying-correction, selling-correction, rebalance and free-cash
\* distribution in this order; the selling-correction starts only after the
\* buying-correction has returned at every level, the rebalancer only after
\* the selling-correction has, and no buying-correction level returns after
\* a selling-correction level.
PassOrderingBuyingFirst ==
    ~fake_prices =>
        /\ IsPrefix(passes, BuyingFirstOrder)
        /\ pc = "done" => passes = BuyingFirstOrder
        /\ "selling" \in SeqSet(passes) => Returned("buying") = {0} \cup GroupSet
        /\ "rebalance" \in SeqSet(passes) => Returned("selling") = {0} \cup GroupSet
        /\ \A i, j \in DOMAIN succeeded :
              succeeded[i][1] = "buying" /\ succeeded[j][1] = "selling" => i < j

\* A finished live run over a tree with a group in which the correctors
\* changed a weight.
PassOrderingWitness ==
    /\ pc = "done"
    /\ ~fake_prices
    /\ GroupSet # {}
    /\ Len(succeeded) = 4
    /\ \E n \in DOMAIN holdings : holdings[n].weight # holdings[n].expected_weight

\* A sibling list of the tree as constructed whose expected_weight values do
\* not sum to 1.
InvalidList(list) ==
    DSum([i \in DOMAIN list |-> holdings0[list[i]].expected_weight]) # One

SomeListInvalid ==
    \/ InvalidList(portfolio.holdings)
    \/ \E n \in DOMAIN holdings0 :
          holdings0[n].is_group /\ InvalidList(holdings0[n].holdings)

\* C5: when the expected_weight values of the root list or of a group's list
\* do not sum to 1, calculate() ends in the configuration Error, with no
\* price looked up and no field of any holding changed.
WeightSumValidation ==
    SomeListInvalid =>
        /\ pc \in {"process", "config_error"}
        /\ prices = None
        /\ holdings = holdings0

\* The configuration Error for a tree whose root list is valid and whose
\* group's list is not.
WeightSumValidationWitness ==
    /\ pc = "config_error"
    /\ ~InvalidList(portfolio.holdings)
    /\ \E n \in GroupSet : InvalidList(holdings0[n].holdings)

\* The steps a second run of a corrector is followed for.
RerunSteps == 12

\* One iteration of the corrector `pass` for the call `frame`.
IterationOf(pass, h, frame) ==
    IF pass = "selling"
    THEN SellingIteration(h, frame.holdings, frame.expected_total_value)
    ELSE BuyingIteration(h, frame.holdings, frame.expected_total_value)

RECURSIVE RunCorrector(_, _, _, _)
RECURSIVE RunCorrectorFrom(_, _, _, _)
\* The holdings once the corrector `pass` has worked off the pending calls
\* `frames` (or raised, or used up the steps).
RunCorrector(pass, h, frames, steps) ==
    IF frames = <<>> \/ steps = 0 THEN h
    ELSE RunCorrectorFrom(pass, IterationOf(pass, h, Head(frames)), frames, steps)

RunCorrectorFrom(pass, it, frames, steps) ==
    IF it.failed THEN it.h
    ELSE IF ~it.succeeded /\ it.correctable # <<>>
    THEN RunCorrector(pass, it.h, frames, steps - 1)
    ELSE RunCorrector(pass, it.h,
                      SubFrames(it.h, Head(frames).holdings, Head(frames).expected_total_value)
                          \o Tail(frames),
                      steps - 1)

WeightsOf(h) == [n \in DOMAIN h |-> h[n].weight]

\* The weights after one more run of the corrector `pass` over the whole
\* tree with the same expected total value.
RerunWeights(pass) ==
    WeightsOf(RunCorrector(pass, holdings, <<Frame(0, portfolio.holdings, rebalance_to)>>,
                           RerunSteps))

\* C6: once correct_weights_for_buying_restriction (respectively
\* correct_weights_for_selling_restriction) has run over the tree, running
\* it again with the same expected total value changes no holding's weight.
CorrectionIdempotent ==
    /\ pc = "selling" /\ "selling" \notin SeqSet(passes)
          => RerunWeights("buying") = WeightsOf(holdings)
    /\ pc = "rebalance" /\ ~fake_prices
          => RerunWeights("selling") = WeightsOf(holdings)

\* The group a holding belongs to, 0 for a holding of the root list.
GroupOf(n) ==
    IF \E g \in GroupSet : n \in SeqSet(holdings[g].holdings)
    THEN CHOOSE g \in GroupSet : n \in SeqSet(holdings[g].holdings)
    ELSE 0

RECURSIVE TargetValue(_)
\* The amount to rebalance times the configured weights down to n.
TargetValue(n) ==
    DMul(IF GroupOf(n) = 0 THEN rebalance_to ELSE TargetValue(GroupOf(n)),
         holdings[n].expected_weight)

ExactMultiple(value, price) ==
    /\ ~FloorDivFails(value, price)
    /\ DMul(DFloorDiv(value, price), price) = value

\* C7: with no restrictions, a zero commission schedule, min_trade_volume 0
\* and every leaf's target value an exact multiple of its price, a run ends
\* with every leaf holding target value / price shares, no distributable
\* cash left over and no commissions.
ExactRebalance ==
    /\ pc = "done"
    /\ Unrestricted
    /\ ZeroCommission
    /\ portfolio.min_trade_volume = Zero
    /\ \A n \in LeafSet : ExactMultiple(TargetValue(n), holdings[n].price)
    => /\ \A n \in LeafSet :
             holdings[n].shares = DFloorDiv(TargetValue(n), holdings[n].price)
       /\ free_assets_to_distribute = Zero
       /\ result.commissions = Zero

\* C8: with no restrictions, a zero commission schedule and min_trade_volume
\* 0, once both distribution passes have finished the distributable cash
\* left is smaller than every leaf's price; a single leaf at price p given
\* the cash c > 0 has floor(c / p) shares more and c - floor(c / p) x p is
\* left.
FreeCashSpent ==
    /\ pc = "done"
    /\ Unrestricted
    /\ ZeroCommission
    /\ portfolio.min_trade_volume = Zero
    => /\ \A n \in LeafSet : DLt(free_assets_to_distribute, holdings[n].price)
       /\ portfolio.holdings = <<1>> /\ DGt(distributed0, Zero)
             => /\ DSub(holdings[1].shares, holdings0[1].shares)
                      = DFloorDiv(distributed0, holdings[1].price)
                /\ free_assets_to_distribute
                      = DSub(distributed0,
                             DMul(DFloorDiv(distributed0, holdings[1].price),
                                  holdings[1].price))

\* Both passes finished for a single leaf that took two shares or more and
\* left some cash.
FreeCashSpentWitness ==
    /\ pc = "done"
    /\ Unrestricted
    /\ ZeroCommission
    /\ portfolio.min_trade_volume = Zero
    /\ portfolio.holdings = <<1>>
    /\ DGe(DSub(holdings[1].shares, holdings0[1].shares), Dec(2))
    /\ DGt(free_assets_to_distribute, Zero)

\* C9: in every state from the rebalance pass on, a leaf whose sell_blocked
\* or buy_blocked flag is set has shares = current_shares.
BlockedIsUntraded ==
    \A n \in LeafSet : Blocked(n) => ~Traded(n)

\* C10: at each sibling level a corrector retries only after a clamp with a
\* non-empty correctable set, the correctable set strictly shrinks from one
\* retry to the next, and the retries at a level number at most the
\* siblings; so every call returns.
CorrectorTermination ==
    /\ pc # "diverged"
    /\ \A i \in DOMAIN stack :
          /\ stack[i].retries > 0 => stack[i].clamped /\ stack[i].correctable # <<>>
          /\ stack[i].retries > 1
                => /\ SeqSet(stack[i].correctable) \subseteq SeqSet(stack[i].previous)
                   /\ SeqSet(stack[i].correctable) # SeqSet(stack[i].previous)
          /\ stack[i].retries <= Len(stack[i].holdings)

\* The step is the return of the innermost pending call of the corrector
\* `pass`, with the result `ok` of its own sibling list.
Returns(pass, ok) ==
    /\ pc = pass
    /\ Len(succeeded') = Len(succeeded) + 1
    /\ succeeded'[Len(succeeded')] = <<pass, Head(stack).level, ok>>

\* Every sibling of the returning call with a minimum_value has
\* expected_total_value x weight >= minimum_value once it has returned.
FloorsMet ==
    \A n \in SeqSet(Head(stack).holdings) :
        holdings'[n].minimum_value # None
            => DGe(DMul(Head(stack).expected_total_value, holdings'[n].weight),
                   holdings'[n].minimum_value)

\* Every sibling of the returning call with a maximum_value has
\* expected_total_value x weight <= maximum_value once it has returned.
CeilingsMet ==
    \A n \in SeqSet(Head(stack).holdings) :
        holdings'[n].maximum_value # None
            => DLe(DMul(Head(stack).expected_total_value, holdings'[n].weight),
                   holdings'[n].maximum_value)

\* C11: whenever correct_weights_for_selling_restriction leaves a sibling
\* list with success, every sibling with a minimum_value has
\* expected_total_value x weight >= minimum_value; whenever
\* correct_weights_for_buying_restriction does, every sibling with a
\* maximum_value has expected_total_value x weight <= maximum_value.
CorrectorGoal ==
    [][/\ Returns("selling", TRUE) => FloorsMet
       /\ Returns("buying", TRUE) => CeilingsMet]_vars

\* max(expected_total_value x weight, minimum_value) of the siblings `list`
\* after the step.
FlooredValues(list, expected_total_value) ==
    [i \in DOMAIN list |->
        IF holdings'[list[i]].minimum_value # None
        THEN DMax(DMul(expected_total_value, holdings'[list[i]].weight),
                  holdings'[list[i]].minimum_value)
        ELSE DMul(expected_total_value, holdings'[list[i]].weight)]

\* The minimum_value of the siblings `list` that have one.
Floors(list) ==
    [i \in DOMAIN list |->
        IF holdings[list[i]].minimum_value # None
        THEN holdings[list[i]].minimum_value ELSE Zero]

\* Equal up to the rounding of the weights: a tenth of a share's price.
Close(x, y) == DLe(DAbs(DSub(x, y)), Round(1, -1))

\* C12: when the minimum_value of the siblings that have one sum to at most
\* expected_total_value, once correct_weights_for_selling_restriction has
\* finished the level the sum over the siblings of
\* max(expected_total_value x weight, minimum_value) is expected_total_value
\* and no sibling has a negative weight, also after a retry.
ExactRedistribution ==
    [][(/\ \E ok \in BOOLEAN : Returns("selling", ok)
        /\ DLe(DSum(Floors(Head(stack).holdings)), Head(stack).expected_total_value))
          => /\ Close(DSum(FlooredValues(Head(stack).holdings,
                                         Head(stack).expected_total_value)),
                      Head(stack).expected_total_value)
             /\ \A n \in SeqSet(Head(stack).holdings) : DGe(holdings'[n].weight, Zero)]_vars

\* A correction pass is the last pass started.
Correcting == passes # <<>> /\ passes[Len(passes)] \in {"buying", "selling"}

\* C13: for every portfolio that passes validation, whatever its floors,
\* ceilings, 0% weights or amounts to rebalance, the correction passes raise
\* no arithmetic error and return, so that the run goes on to the rebalancer
\* and to a result.
GracefulDegradation ==
    Correcting => pc \notin {"arith_error", "diverged"}

\* C14: each outer pass of the distribution ends after finitely many calls
\* of distribute_free_assets and the distributable cash does not grow
\* without bound: no outer pass is still calling after MaxCalls calls, and
\* the distributable cash never exceeds the total assets of the portfolio.
DistributionTerminates ==
    /\ pc # "runaway"
    /\ pc \in {"distribute", "done", "runaway"}
          => DLe(free_assets_to_distribute, total_assets)

====
